---- MODULE Spec2Model ----
(***************************************************************************)
(* Model of Robot::TeleopPeriodic (src/main/cpp/Robot.cpp): the teleop     *)
(* command arbitration that turns gamepad samples into position targets    *)
(* for one Talon SRX, and the rate-limited telemetry line.                 *)
(*                                                                         *)
(* Numbers of C++ type double (the joystick axis, targetPositionRotations, *)
(* the value handed to TalonSRX::Set) are fixed-point integers in units of *)
(* 1/Scale; sensor positions are C++ int and are whole counts.             *)
(***************************************************************************)
EXTENDS Integers, Sequences, FiniteSets, TLC

VARIABLES
    targetPositionRotations, \* double, in 1/Scale counts
    _lastButton1,
    _lastButton2,
    _lastButton3,
    _loops,                  \* int
    _sb,                     \* std::string, a sequence of appended pieces
    controlMode,             \* what _talon_right->GetControlMode() returns
    absOverload,             \* which abs() the build resolves at line 117
    joy,                     \* the gamepad values sampled by the last tick
    currentPos,              \* the values read at line 118 in the last tick
    sent,                    \* the TalonSRX::Set calls made by the last tick
    stdout,                  \* the lines printf wrote in the last tick
    ticks,                   \* number of TeleopPeriodic calls so far
    commanded,               \* some tick so far called TalonSRX::Set
    targetAssigned,          \* some tick so far assigned targetPositionRotations
    log                      \* the most recent ticks, oldest first

vars == <<targetPositionRotations, _lastButton1, _lastButton2, _lastButton3,
          _loops, _sb, controlMode, absOverload,
          joy, currentPos, sent, stdout, ticks, commanded, targetAssigned,
          log>>

(* ------------------------------ numbers -------------------------------- *)

Scale == 100

Abs(x) == IF x < 0 THEN -x ELSE x

\* double -> int conversion of C++: truncation toward zero
Trunc(x) == IF x >= 0 THEN x \div Scale ELSE -((-x) \div Scale)

\* std::abs(double): the magnitude, fraction kept
AbsDouble(x) == Abs(x)

\* ::abs(int) applied to a double: the argument is converted to int first,
\* the int result is converted back to double for the comparison
AbsInt(x) == Abs(Trunc(x)) * Scale

\* the unqualified call abs(leftYstick) of line 117; no using-directive for
\* std is in the file, so the overload depends on the headers of the build
abs(x) == IF absOverload = "int" THEN AbsInt(x) ELSE AbsDouble(x)

\* std::to_string(double): "%f", six digits after the point
to_string_double(x) ==
    [neg |-> x < 0, whole |-> Abs(x) \div Scale,
     micro |-> (Abs(x) % Scale) * (1000000 \div Scale)]

\* std::to_string(int): "%d"
to_string_int(n) == [neg |-> n < 0, whole |-> Abs(n), micro |-> -1]

(* ----------------------------- constants ------------------------------- *)

Preset1 == 5 * 80 * 12 * Scale
Preset2 == 10 * 80 * 12 * Scale
Preset3 == 15 * 80 * 12 * Scale
JoystickThreshold == 1           \* 0.01
Window == 50
JoystickGain == 150
PrintPeriod == 10

NotRead == <<>>

(* ------------------------------- bounds -------------------------------- *)

MaxTicks == 3
MaxTicksTelemetry == 21
MaxTicksHistory == 3
HistoryLen == 2
MaxTicksLag == 3

RawAxisValues == {-100, -50, -1, 0, 50, 100}
PosOffsets == {-51, -50, 0, 50, 51}
UninitTargets == {0, 1000 * Scale}
OutputValues == {0}
ErrorValues == {0}
ModeValues == {"PercentOutput", "Position"}
AbsOverloads == {"int", "double"}

AllButtons == [button1 : BOOLEAN, button2 : BOOLEAN, button3 : BOOLEAN,
               button4 : BOOLEAN]
NoButtons == [button1 |-> FALSE, button2 |-> FALSE, button3 |-> FALSE,
              button4 |-> FALSE]

\* sensor readings around the window of target t
PosNear(t, offsets) == {(t \div Scale) + o : o \in offsets}

(* -------------------------------- Init --------------------------------- *)

\* the fields of the Robot object after construction and RobotInit
Init ==
    /\ targetPositionRotations \in UninitTargets
    /\ _lastButton1 = FALSE
    /\ _lastButton2 = FALSE
    /\ _lastButton3 = FALSE
    /\ _loops = 0
    /\ _sb = <<>>
    /\ controlMode \in ModeValues
    /\ absOverload \in AbsOverloads
    /\ joy = [axis |-> 0] @@ NoButtons
    /\ currentPos = NotRead
    /\ sent = <<>>
    /\ stdout = <<>>
    /\ ticks = 0
    /\ commanded = FALSE
    /\ targetAssigned = FALSE
    /\ log = <<>>

(* --------------------------- TeleopPeriodic ---------------------------- *)

ArbiterState ==
    [targetPosition |-> targetPositionRotations,
     prevButton1 |-> _lastButton1, prevButton2 |-> _lastButton2,
     prevButton3 |-> _lastButton3]

\* what a branch of lines 93-128 does
\*   target: the new targetPositionRotations, set: the TalonSRX::Set calls,
\*   pos: the sensor positions read at line 118
Command(t, reads) ==
    [target |-> t, assigned |-> TRUE, set |-> <<t>>, pos |-> reads]
NoCommand ==
    [target |-> targetPositionRotations, assigned |-> FALSE, set |-> <<>>,
     pos |-> NotRead]

JoystickAdjust_ThresholdInclusive(leftYstick, posRead) ==
    IF abs(leftYstick) >= JoystickThreshold THEN
        IF \/ targetPositionRotations - Window * Scale > posRead * Scale
           \/ posRead * Scale > targetPositionRotations + Window * Scale
        THEN Command(leftYstick * JoystickGain + posRead * Scale, <<posRead>>)
        ELSE Command(leftYstick * JoystickGain + targetPositionRotations,
                     <<posRead>>)
    ELSE NoCommand

JoystickAdjust_SilentAccumulate(leftYstick, posRead) ==
    IF abs(leftYstick) > JoystickThreshold THEN
        IF \/ targetPositionRotations - Window * Scale > posRead * Scale
           \/ posRead * Scale > targetPositionRotations + Window * Scale
        THEN Command(leftYstick * JoystickGain + posRead * Scale, <<posRead>>)
        ELSE [target |-> leftYstick * JoystickGain + targetPositionRotations,
              assigned |-> TRUE, set |-> <<>>, pos |-> <<posRead>>]
    ELSE NoCommand

JoystickAdjust_IdleReanchor(leftYstick, posRead) ==
    IF abs(leftYstick) > JoystickThreshold THEN
        IF \/ targetPositionRotations - Window * Scale > posRead * Scale
           \/ posRead * Scale > targetPositionRotations + Window * Scale
        THEN Command(leftYstick * JoystickGain + posRead * Scale, <<posRead>>)
        ELSE Command(leftYstick * JoystickGain + targetPositionRotations,
                     <<posRead>>)
    ELSE Command(posRead * Scale, <<posRead>>)

JoystickAdjust_AlwaysAccumulate(leftYstick, posRead) ==
    IF abs(leftYstick) > JoystickThreshold THEN
        Command(leftYstick * JoystickGain + targetPositionRotations,
                <<posRead>>)
    ELSE NoCommand

\* lines 114-128: joystick control using position mode
JoystickAdjust(leftYstick, posRead) ==
    IF abs(leftYstick) > JoystickThreshold THEN
        IF \/ targetPositionRotations - Window * Scale > posRead * Scale
           \/ posRead * Scale > targetPositionRotations + Window * Scale
        THEN Command(leftYstick * JoystickGain + posRead * Scale, <<posRead>>)
        ELSE Command(leftYstick * JoystickGain + targetPositionRotations,
                     <<posRead>>)
    ELSE NoCommand

Arbitrate_JoystickFirst(leftYstick, button1, button2, button3, posRead) ==
    IF abs(leftYstick) > JoystickThreshold THEN
        JoystickAdjust(leftYstick, posRead)
    ELSE IF ~_lastButton1 /\ button1 THEN Command(Preset1, NotRead)
    ELSE IF ~_lastButton2 /\ button2 THEN Command(Preset2, NotRead)
    ELSE IF ~_lastButton3 /\ button3 THEN Command(Preset3, NotRead)
    ELSE NoCommand

Arbitrate_Button2First(leftYstick, button1, button2, button3, posRead) ==
    IF ~_lastButton2 /\ button2 THEN Command(Preset2, NotRead)
    ELSE IF ~_lastButton1 /\ button1 THEN Command(Preset1, NotRead)
    ELSE IF ~_lastButton3 /\ button3 THEN Command(Preset3, NotRead)
    ELSE JoystickAdjust(leftYstick, posRead)

Arbitrate_LevelTriggered(leftYstick, button1, button2, button3, posRead) ==
    IF button1 THEN Command(Preset1, NotRead)
    ELSE IF button2 THEN Command(Preset2, NotRead)
    ELSE IF button3 THEN Command(Preset3, NotRead)
    ELSE JoystickAdjust(leftYstick, posRead)

\* lines 93-128: the if / else-if chain of TeleopPeriodic
Arbitrate(leftYstick, button1, button2, button3, posRead) ==
    IF ~_lastButton1 /\ button1 THEN Command(Preset1, NotRead)
    ELSE IF ~_lastButton2 /\ button2 THEN Command(Preset2, NotRead)
    ELSE IF ~_lastButton3 /\ button3 THEN Command(Preset3, NotRead)
    ELSE JoystickAdjust(leftYstick, posRead)

\* lines 87-91: the pieces appended for every tick
BaseInfo(sb, motorOutputRight, posPrint) ==
    sb \o << <<"out right", to_string_double(motorOutputRight)>>,
             <<"pos right", to_string_int(posPrint)>> >>

MoreInfo_Always(sb, mode, err, target) ==
    sb \o << <<"errNative", to_string_int(err)>>,
             <<"trg", to_string_double(target)>> >>

\* lines 130-137: the pieces appended in position closed-loop
MoreInfo(sb, mode, err, target) ==
    IF mode = "Position"
    THEN sb \o << <<"errNative", to_string_int(err)>>,
                  <<"trg", to_string_double(target)>> >>
    ELSE sb

Throttle_Strict(loops) ==
    IF loops + 1 > PrintPeriod
    THEN [loops |-> 0, print |-> TRUE]
    ELSE [loops |-> loops + 1, print |-> FALSE]

\* lines 139-143: the new _loops and whether the line is printed
Throttle(loops) ==
    IF loops + 1 >= PrintPeriod
    THEN [loops |-> 0, print |-> TRUE]
    ELSE [loops |-> loops + 1, print |-> FALSE]

SaveButtons_CopyPaste(button1, button2, button3) == <<button1, button1, button3>>

\* lines 146-149: the new _lastButton1, _lastButton2, _lastButton3
SaveButtons(button1, button2, button3) == <<button1, button2, button3>>

ControlModeAfter_PerTick(set, mode) ==
    IF set # <<>> THEN "Position" ELSE "PercentOutput"

\* lines 97-131: the mode GetControlMode reports after the Set calls of the
\* tick, every one of them Set(ControlMode::Position, ...)
ControlModeAfter(set, mode) == IF set # <<>> THEN "Position" ELSE mode

Clear_Forgotten(sb) == sb

\* line 144: _sb.clear()
Clear(sb) == <<>>

Effects_Button4Home(axis, b, motorOutputRight, posPrint, posRead, err) ==
    LET leftYstick == axis * (-1)
        sb1 == BaseInfo(_sb, motorOutputRight, posPrint)
        a == IF b.button4 THEN Command(0, NotRead)
             ELSE Arbitrate(leftYstick, b.button1, b.button2, b.button3,
                            posRead)
        mode == ControlModeAfter(a.set, controlMode)
        sb2 == MoreInfo(sb1, mode, err, a.target)
        th == Throttle(_loops)
        saved == SaveButtons(b.button1, b.button2, b.button3)
    IN  /\ targetPositionRotations' = a.target
        /\ targetAssigned' = (targetAssigned \/ a.assigned)
        /\ sent' = a.set
        /\ commanded' = (commanded \/ a.set # <<>>)
        /\ currentPos' = a.pos
        /\ controlMode' = mode
        /\ _loops' = th.loops
        /\ stdout' = IF th.print THEN <<sb2>> ELSE <<>>
        /\ _sb' = Clear(sb2)
        /\ _lastButton1' = saved[1]
        /\ _lastButton2' = saved[2]
        /\ _lastButton3' = saved[3]
        /\ UNCHANGED absOverload

\* lines 75-150: what the tick does to the fields of Robot, to the Talon and
\* to stdout, with the readings of the tick as parameters
Effects(axis, b, motorOutputRight, posPrint, posRead, err) ==
    LET leftYstick == axis * (-1)
        sb1 == BaseInfo(_sb, motorOutputRight, posPrint)
        a == Arbitrate(leftYstick, b.button1, b.button2, b.button3, posRead)
        mode == ControlModeAfter(a.set, controlMode)
        sb2 == MoreInfo(sb1, mode, err, a.target)
        th == Throttle(_loops)
        saved == SaveButtons(b.button1, b.button2, b.button3)
    IN  /\ targetPositionRotations' = a.target
        /\ targetAssigned' = (targetAssigned \/ a.assigned)
        /\ sent' = a.set
        /\ commanded' = (commanded \/ a.set # <<>>)
        /\ currentPos' = a.pos
        /\ controlMode' = mode
        /\ _loops' = th.loops
        /\ stdout' = IF th.print THEN <<sb2>> ELSE <<>>
        /\ _sb' = Clear(sb2)
        /\ _lastButton1' = saved[1]
        /\ _lastButton2' = saved[2]
        /\ _lastButton3' = saved[3]
        /\ UNCHANGED absOverload

\* the bookkeeping of the model: the sample, the tick count and the log of
\* the last keep ticks
Record(axis, b, motorOutputRight, posPrint, posRead, err, keep) ==
    LET entry == [before |-> ArbiterState, axis |-> axis, buttons |-> b,
                  out |-> motorOutputRight, posPrint |-> posPrint,
                  pos |-> posRead, err |-> err, set |-> sent']
        all == Append(log, entry)
    IN  /\ joy' = [axis |-> axis] @@ b
        /\ ticks' = ticks + 1
        /\ log' = IF Len(all) > keep
                  THEN SubSeq(all, Len(all) - keep + 1, Len(all))
                  ELSE all

TeleopPeriodic(axis, b, motorOutputRight, posPrint, posRead, err, keep) ==
    /\ Effects(axis, b, motorOutputRight, posPrint, posRead, err)
    /\ Record(axis, b, motorOutputRight, posPrint, posRead, err, keep)

\* one call by the scheduler, the readings drawn from the given sets
Step(maxTicks, axes, buttons, offsets, printOffsets, keep) ==
    /\ ticks < maxTicks
    /\ \E axis \in axes, b \in buttons,
          motorOutputRight \in OutputValues, err \in ErrorValues :
         \E posRead \in PosNear(targetPositionRotations, offsets) :
            \E posPrint \in {posRead + o : o \in printOffsets} :
               TeleopPeriodic(axis, b, motorOutputRight, posPrint, posRead,
                              err, keep)

\* button4 is left released here
ArbiterButtons == {b \in AllButtons : ~b.button4}

Tick == Step(MaxTicks, RawAxisValues, ArbiterButtons, PosOffsets, {0}, 0)

Next == Tick

Spec == Init /\ [][Next]_vars

\* long runs with few inputs: the telemetry line and its rate limit
TelemetryButtons == {b \in AllButtons : ~b.button2 /\ ~b.button3 /\ ~b.button4}

TickTelemetry ==
    Step(MaxTicksTelemetry, {-100, 0}, TelemetryButtons, {0}, {-1, 0}, 0)

NextTelemetry == TickTelemetry

SpecTelemetry == Init /\ [][NextTelemetry]_vars

\* short runs that remember the last HistoryLen ticks
HistoryButtons == {b \in AllButtons : ~b.button3 /\ ~b.button4}

TickHistory ==
    Step(MaxTicksHistory, {-50, 0}, HistoryButtons, {-51, -50, 0}, {0},
         HistoryLen)

NextHistory == TickHistory

SpecHistory == Init /\ [][NextHistory]_vars

\* short runs in which the sensor may be far from the target
LagButtons == {b \in AllButtons : ~b.button2 /\ ~b.button3 /\ ~b.button4}
LagOffsets == {-5000, -51, -50, 0, 50, 51, 5000}

TickLag == Step(MaxTicksLag, RawAxisValues, LagButtons, LagOffsets, {0}, 0)

NextLag == TickLag

SpecLag == Init /\ [][NextLag]_vars

\* long runs that sample button4 and remember the readings of the last tick
TelemetryLogButtons == {b \in AllButtons : ~b.button2 /\ ~b.button3}

TickTelemetryLog ==
    Step(MaxTicksTelemetry, {-100, 0}, TelemetryLogButtons, {0}, {-1, 0}, 1)

NextTelemetryLog == TickTelemetryLog

SpecTelemetryLog == Init /\ [][NextTelemetryLog]_vars

\* the long runs of SpecTelemetry with a Talon that starts outside position
\* closed-loop
InitPercentOutput == Init /\ controlMode = "PercentOutput"

SpecPercentOutput == InitPercentOutput /\ [][NextTelemetry]_vars

(* ------------------------------ properties ----------------------------- *)
(* axisY of the specification is leftYstick, the axis reading after the    *)
(* sign flip of line 77; 4800, 9600 and 14400 counts and the 0.01, 50 and  *)
(* 150 of the joystick policy are written out, not taken from the model.   *)

Counts(n) == n * Scale

\* leftYstick of the tick that led to the current state / of a logged tick
LeftY == joy.axis * (-1)
EntryLeftY(e) == e.axis * (-1)

\* abs(axisY) <= 0.01, axisY in 1/Scale
InDeadband(y) == Abs(y) * 100 <= Scale

\* rising edges of the step from the current state to the next
Rise1 == ~_lastButton1 /\ joy'.button1
Rise2 == ~_lastButton2 /\ joy'.button2
Rise3 == ~_lastButton3 /\ joy'.button3

\* rising / any edges of a logged tick
EntryRise(e) ==
    \/ ~e.before.prevButton1 /\ e.buttons.button1
    \/ ~e.before.prevButton2 /\ e.buttons.button2
    \/ ~e.before.prevButton3 /\ e.buttons.button3
EntryEdge(e) ==
    \/ e.before.prevButton1 # e.buttons.button1
    \/ e.before.prevButton2 # e.buttons.button2
    \/ e.before.prevButton3 # e.buttons.button3

Newest == log[Len(log)]
Older == log[Len(log) - 1]

Labels(line) == {line[i][1] : i \in DOMAIN line}

\* C1: on a tick where button1 is sampled true and _lastButton1 is false,
\* targetPositionRotations becomes 4800 counts and exactly that value is
\* sent to the Talon, whatever the axis, the other buttons, the sensor
\* position and the previous target are.
C1_Button1RisingEdge ==
    [][Rise1 => /\ targetPositionRotations' = Counts(4800)
                /\ sent' = <<Counts(4800)>>]_vars

\* first tick (all _lastButton flags false), stick fully deflected, button3
\* pressed as well, garbage previous target
C1_Witness ==
    /\ ticks = 1
    /\ joy.button1 /\ joy.button3 /\ joy.axis = -100
    /\ targetPositionRotations = Counts(4800)
    /\ sent = <<Counts(4800)>>

\* C2: strict priority button1 > button2 > button3 > joystick: the preset of
\* the lowest-numbered rising button is the target and the only command of
\* the tick, and the joystick policy is not evaluated (line 118 not reached).
C2_PresetPriority ==
    [][/\ Rise1 =>
            /\ targetPositionRotations' = Counts(4800)
            /\ sent' = <<Counts(4800)>> /\ currentPos' = NotRead
       /\ (~Rise1 /\ Rise2) =>
            /\ targetPositionRotations' = Counts(9600)
            /\ sent' = <<Counts(9600)>> /\ currentPos' = NotRead
       /\ (~Rise1 /\ ~Rise2 /\ Rise3) =>
            /\ targetPositionRotations' = Counts(14400)
            /\ sent' = <<Counts(14400)>> /\ currentPos' = NotRead]_vars

\* button1 and button2 (and button3) rise together on the first tick with
\* the stick deflected: preset 1 wins
C2_Witness ==
    /\ ticks = 1
    /\ joy.button1 /\ joy.button2 /\ joy.button3 /\ joy.axis = 100
    /\ targetPositionRotations = Counts(4800)
    /\ sent = <<Counts(4800)>>
    /\ currentPos = NotRead

\* C3: on a tick with no rising edge and abs(axisY) > 0.01 the new target is
\* axisY*150 + currentPosition when currentPosition is strictly outside
\* [target - 50, target + 50], and axisY*150 + target otherwise (bounds
\* included).
C3_AnchorSelection ==
    log # <<>> =>
        LET e == Newest
            y == EntryLeftY(e)
            t0 == e.before.targetPosition
            outside == \/ t0 - Counts(50) > Counts(e.pos)
                       \/ Counts(e.pos) > t0 + Counts(50)
        IN  (~EntryRise(e) /\ ~InDeadband(y)) =>
                targetPositionRotations =
                    IF outside THEN y * 150 + Counts(e.pos) ELSE y * 150 + t0

\* C4: on a tick with no rising edge and abs(axisY) <= 0.01 nothing is sent
\* and targetPositionRotations keeps its value, also while a button is held.
C4_Deadband ==
    [][(~Rise1 /\ ~Rise2 /\ ~Rise3 /\ InDeadband(joy'.axis * (-1))) =>
            /\ sent' = <<>>
            /\ targetPositionRotations' = targetPositionRotations]_vars

\* second tick, button1 still held after its press, axisY = 0.01 exactly, in
\* the build whose abs keeps the fraction: nothing sent, target still 4800
C4_Witness ==
    /\ ticks = 2
    /\ absOverload = "double"
    /\ joy.button1 /\ ~joy.button2 /\ ~joy.button3 /\ LeftY = 1
    /\ sent = <<>>
    /\ targetPositionRotations = Counts(4800)

\* C5: after a tick that fired a preset P, a next tick with no rising edge,
\* abs(axisY) > 0.01 and currentPosition within 50 counts of P sends a
\* command and makes the target axisY*150 + P.
C5_PresetThenJoystick ==
    Len(log) >= 2 =>
        LET e1 == Older
            e2 == Newest
            P == e2.before.targetPosition
            y == EntryLeftY(e2)
        IN  (/\ EntryRise(e1)
             /\ ~EntryRise(e2) /\ ~InDeadband(y)
             /\ Abs(Counts(e2.pos) - P) <= Counts(50)) =>
                /\ e1.set = <<P>>
                /\ P \in {Counts(4800), Counts(9600), Counts(14400)}
                /\ e2.set = <<y * 150 + P>>
                /\ targetPositionRotations = y * 150 + P

\* C6: a tick sends at most one command; targetPositionRotations changes in
\* a tick only if a command is sent in it, and the value sent is the value
\* the target holds at the end of the tick.
C6_OneCommandPerTick ==
    [][/\ Len(sent') <= 1
       /\ (targetPositionRotations' # targetPositionRotations => sent' # <<>>)
       /\ (sent' # <<>> => sent' = <<targetPositionRotations'>>)]_vars

\* a joystick command (line 118 was reached) that re-anchored a garbage
\* target of 1000 counts to 949 + 150
C6_Witness ==
    /\ ticks = 1
    /\ currentPos = <<949>> /\ LeftY = 100
    /\ sent = <<Counts(949 + 150)>>
    /\ targetPositionRotations = Counts(949 + 150)

\* C7 as stated: two consecutive ticks with identical samples, axisY = 0 and
\* no rising edge on either leave the whole ArbiterState as it was before
\* the first of them, and neither sends a command.
C7_IdempotenceNoRisingEdge ==
    Len(log) >= 2 =>
        LET e1 == Older
            e2 == Newest
        IN  (/\ e1.axis = e2.axis /\ e1.buttons = e2.buttons /\ e1.pos = e2.pos
             /\ e1.axis = 0
             /\ ~EntryRise(e1) /\ ~EntryRise(e2)) =>
                /\ ArbiterState = e1.before
                /\ e1.set = <<>> /\ e2.set = <<>>

\* C7 amended: the same with no button edge at all, rising or falling, on
\* either tick.
C7_IdempotenceNoEdge ==
    Len(log) >= 2 =>
        LET e1 == Older
            e2 == Newest
        IN  (/\ e1.axis = e2.axis /\ e1.buttons = e2.buttons /\ e1.pos = e2.pos
             /\ e1.axis = 0
             /\ ~EntryEdge(e1) /\ ~EntryEdge(e2)) =>
                /\ ArbiterState = e1.before
                /\ e1.set = <<>> /\ e2.set = <<>>

\* button1 pressed on the first tick and held through two ticks at rest
C7_Witness ==
    /\ ticks = 3 /\ Len(log) >= 2
    /\ Older.before.prevButton1 /\ Older.buttons.button1
    /\ ~EntryEdge(Older) /\ ~EntryEdge(Newest)
    /\ Older.axis = 0 /\ Newest.axis = 0
    /\ Older.buttons = Newest.buttons /\ Older.pos = Newest.pos
    /\ ArbiterState = Older.before

\* C8: counting ticks from 1, a line is printed on tick n exactly when n is
\* a multiple of 10; _loops is 0 after a printing tick and always in 0..9.
C8_TelemetryEveryTenth ==
    ticks >= 1 =>
        /\ Len(stdout) <= 1
        /\ (stdout # <<>>) <=> (ticks % 10 = 0)
        /\ (stdout # <<>> => _loops = 0)
        /\ _loops \in 0..9

\* the second line, printed by tick 20
C8_Witness ==
    /\ ticks = 20
    /\ Len(stdout) = 1
    /\ _loops = 0

\* C9: every printed line has the output and position pieces, and has the
\* closed-loop error and target pieces exactly when the Talon reports
\* position mode as the line is built.
C9_TelemetryContent ==
    \A i \in DOMAIN stdout :
        LET l == Labels(stdout[i])
        IN  /\ "out right" \in l /\ "pos right" \in l
            /\ ("errNative" \in l) <=> (controlMode = "Position")
            /\ ("trg" \in l) <=> (controlMode = "Position")

\* a line printed in position mode by a tick that sent nothing itself
C9_Witness ==
    /\ Len(stdout) = 1
    /\ controlMode = "Position"
    /\ sent = <<>>
    /\ Labels(stdout[1]) = {"out right", "pos right", "errNative", "trg"}

\* C10: after every tick, whichever branch ran, _lastButton1, _lastButton2
\* and _lastButton3 are the raw button values sampled in that tick.
C10_PrevButtonsAreSamples ==
    ticks >= 1 =>
        /\ _lastButton1 = joy.button1
        /\ _lastButton2 = joy.button2
        /\ _lastButton3 = joy.button3

\* second tick: button1 held, button2 newly pressed, so preset 2 fired
C10_Witness ==
    /\ ticks = 2
    /\ sent = <<Counts(9600)>>
    /\ joy.button1 /\ joy.button2 /\ ~joy.button3
    /\ _lastButton1 /\ _lastButton2 /\ ~_lastButton3

\* the preset branch of a button ran in the tick that led to the current
\* state: its value was sent and line 118 was not reached
PresetFired(p) == sent = <<p>> /\ currentPos = NotRead

\* C11: a preset is commanded on a tick only if its button was sampled
\* false on the tick before (or there was none) and true on this tick; a
\* button that stays pressed never fires its preset again, whether it fired
\* when pressed or lost to a higher-priority button, and on such ticks any
\* command comes from the joystick policy.
C11_FreshPressOnly ==
    [][/\ PresetFired(Counts(4800))' => (~joy.button1 /\ joy'.button1)
       /\ PresetFired(Counts(9600))' => (~joy.button2 /\ joy'.button2)
       /\ PresetFired(Counts(14400))' => (~joy.button3 /\ joy'.button3)
       /\ (/\ joy.button1 \/ ~joy'.button1
           /\ joy.button2 \/ ~joy'.button2
           /\ joy.button3 \/ ~joy'.button3) =>
                (sent' = <<>> \/ currentPos' # NotRead)]_vars

\* tick 1 pressed button1 and button2 together (preset 1 won: the target is
\* 4800 and button2 could not be held otherwise), tick 2 released button1
\* and kept button2: the dropped preset 2 does not fire, the stick moves the
\* target instead
C11_Witness ==
    /\ ticks = 2
    /\ ~joy.button1 /\ joy.button2 /\ ~joy.button3
    /\ LeftY = 100
    /\ currentPos = <<4800>>
    /\ sent = <<Counts(4800 + 150)>>
    /\ targetPositionRotations = Counts(4800 + 150)

\* C12: with axisY in [-1, 1], a command of the joystick policy has a
\* target within 50 + 150*abs(axisY) counts, hence within 200, of the sensor
\* position read at line 118 in that tick, however far the sensor is from
\* the previous target; when it re-anchors, within 150*abs(axisY).
C12_NoRunaway ==
    [][currentPos' # NotRead =>
        LET pos == Counts(currentPos'[1])
            y == joy'.axis * (-1)
            d == Abs(targetPositionRotations' - pos)
            outside == \/ targetPositionRotations - Counts(50) > pos
                       \/ pos > targetPositionRotations + Counts(50)
        IN  /\ sent' = <<targetPositionRotations'>>
            /\ d <= Counts(50) + 150 * Abs(y)
            /\ d <= Counts(200)
            /\ outside => d <= 150 * Abs(y)]_vars

\* after preset 1 the sensor is read 5000 counts below the target and the
\* stick is fully deflected: the target is re-anchored to -200 + 150
C12_Witness ==
    /\ ticks = 2
    /\ currentPos = <<4800 - 5000>>
    /\ LeftY = 100
    /\ sent = <<Counts(150 - 200)>>
    /\ targetPositionRotations = Counts(150 - 200)

\* C13: button4 is a dead input. Every tick taken with one value of button4
\* leaves all fields of Robot, the commands sent and the line printed
\* exactly as the same tick with the other value of button4 and the same
\* other readings does; as a tick is a function of the state and the
\* readings, two runs that differ only in button4 agree after every tick.
C13_Button4Dead ==
    [][LET e == log'[Len(log')]
       IN  Effects(e.axis, [e.buttons EXCEPT !.button4 = ~@], e.out,
                   e.posPrint, e.pos, e.err)]_vars

\* button4 pressed on a tick that also sends a command and prints a line
C13_Witness ==
    /\ ticks = 10
    /\ joy.button4 /\ joy.button1
    /\ sent = <<Counts(4800)>>
    /\ Len(stdout) = 1

\* C14: every command is a position command, so once a tick has sent one
\* the Talon reports position mode after that tick and every later one, and
\* every line printed from that tick on has the closed-loop error and target
\* pieces; with a Talon that does not start in position mode, no line
\* printed before the first command has them.
C14_PositionModeSticky ==
    /\ commanded => controlMode = "Position"
    /\ \A i \in DOMAIN stdout :
          LET l == Labels(stdout[i])
          IN  /\ ("errNative" \in l) <=> commanded
              /\ ("trg" \in l) <=> commanded

\* the line of tick 10, printed by a tick that itself sends a command
C14_Witness ==
    /\ ticks = 10
    /\ sent = <<Counts(4800)>>
    /\ commanded
    /\ Len(stdout) = 1
    /\ {"errNative", "trg"} \subseteq Labels(stdout[1])

Piece(line, label) == {line[i][2] : i \in {j \in DOMAIN line : line[j][1] = label}}

\* C15: a printed line holds the pieces of the printing tick only. _sb is
\* empty after every tick, printing or not, so a line has each piece once;
\* its target piece is targetPositionRotations as the arbitration of that
\* tick left it, and its position piece is the sensor position read at line
\* 91, before the arbitration.
C15_LineOfThisTick ==
    /\ _sb = <<>>
    /\ \A i \in DOMAIN stdout :
          LET line == stdout[i]
              l == Labels(line)
          IN  /\ Len(line) = Cardinality(l)
              /\ Piece(line, "pos right") = {to_string_int(Newest.posPrint)}
              /\ "trg" \in l =>
                    Piece(line, "trg") =
                        {to_string_double(targetPositionRotations)}

\* the line of tick 20, whose tick moved the target by the stick and read
\* the sensor one count lower at line 91 than at line 118
C15_Witness ==
    /\ ticks = 20
    /\ Len(stdout) = 1
    /\ currentPos # NotRead
    /\ sent = <<targetPositionRotations>>
    /\ Newest.posPrint = Newest.pos - 1
    /\ Piece(stdout[1], "trg") = {to_string_double(targetPositionRotations)}
    /\ Piece(stdout[1], "pos right") = {to_string_int(Newest.pos - 1)}

\* C16: targetPositionRotations is never read before the program gave it a
\* value: a tick that reaches the comparison of line 119 (it has read the
\* sensor at line 118) follows a tick that assigned the target, and a tick
\* that appends the target at line 136 (the Talon reports position mode) has
\* assigned it itself or follows a tick that did.
C16_TargetAssignedBeforeRead ==
    [][/\ currentPos' # NotRead => targetAssigned
       /\ controlMode' = "Position" => targetAssigned']_vars

====
